---------------------------- MODULE Spec2Model ----------------------------
(***************************************************************************)
(* Model of the algx exact-cover solver (Knuth's Algorithm X on a dancing  *)
(* links mesh, driven by an explicit step stack): src/src/lib.rs and       *)
(* src/src/node.rs.                                                        *)
(*                                                                         *)
(* Node ids are the 0-based indices of the node vector, as in the source;  *)
(* the vector is a TLA+ sequence, so node id i is nodes[i + 1].  In the    *)
(* same way column c has its counter at column_sizes[c + 1].               *)
(***************************************************************************)
EXTENDS Integers, Sequences, FiniteSets, TLC

(***************************************************************************)
(* Bounds of the explored inputs.                                          *)
(***************************************************************************)
\* column indices of the generated inputs are 0 .. NumCols - 1
NumCols == 3
\* the generated inputs have at most MaxRows rows
MaxRows == 2

VARIABLES
    rows,              \* input of Solver::new: the rows
    forced,            \* input of Solver::new: the forced columns (parameter partial_solution)
    state,             \* Solver.state: [nodes, header, column_sizes]
    step_stack,        \* Solver.step_stack
    partial_solution,  \* Solver.partial_solution
    ret,               \* value returned by the latest step() / next() call
    popped,            \* the Step popped by the latest step(), if any
    op,                \* the latest call: "new", "step" or "next"
    collected,         \* the solutions returned so far, in order (the caller's collect())
    undo_log,          \* history: what each forward step not yet undone found and did
    undone             \* history: the entry of undo_log matched by the latest step, if it was a backtracking step

vars == <<rows, forced, state, step_stack, partial_solution, ret, popped, op, collected,
          undo_log, undone>>

(***************************************************************************)
(* node.rs                                                                 *)
(***************************************************************************)
\* usize::MAX; the largest integer of the checker stands for it, no index of
\* the model comes near it
usize_MAX == 2147483647

\* NodeId::invalid()
invalid == usize_MAX

\* NodeId::is_valid
is_valid(id) == id # invalid

\* Node::default(): derived Default, every link is NodeId::default() = invalid
Node_default ==
    [left |-> invalid, right |-> invalid, up |-> invalid, down |-> invalid,
     header |-> invalid, row |-> 0, col |-> 0]

\* Option values
None == [some |-> FALSE]
Some(v) == [some |-> TRUE, value |-> v]

(***************************************************************************)
(* SolverState                                                             *)
(***************************************************************************)
\* SolverState::node / node_mut
node(st, id) == st.nodes[id + 1]

\* SolverState::new_node: pushes a default node; its id is the old length
new_node(st) == [st EXCEPT !.nodes = Append(@, Node_default)]

new_node_id(st) == Len(st.nodes)

\* SolverState::link_horizontal
link_horizontal(st, left_id, right_id) ==
    LET s1 == [st EXCEPT !.nodes[left_id + 1].right = right_id]
    IN  [s1 EXCEPT !.nodes[right_id + 1].left = left_id]

\* SolverState::detach_column
detach_column(st, node_id) ==
    LET hdr == node(st, node(st, node_id).header)
        header_left_id == hdr.left
        header_right_id == hdr.right
        s1 == [st EXCEPT !.nodes[header_left_id + 1].right = header_right_id]
    IN  [s1 EXCEPT !.nodes[header_right_id + 1].left = header_left_id]

\* mutant of attach_column: the right neighbour's left link is not restored
attach_column_one_way(st, node_id) ==
    LET header_id == node(st, node_id).header
        hdr == node(st, header_id)
        header_left_id == hdr.left
    IN  [st EXCEPT !.nodes[header_left_id + 1].right = header_id]

\* SolverState::attach_column
attach_column(st, node_id) ==
    LET header_id == node(st, node_id).header
        hdr == node(st, header_id)
        header_left_id == hdr.left
        header_right_id == hdr.right
        s1 == [st EXCEPT !.nodes[header_left_id + 1].right = header_id]
    IN  [s1 EXCEPT !.nodes[header_right_id + 1].left = header_id]

RECURSIVE detach_row_loop(_, _, _)

\* mutant of detach_row_loop: the column counter is not decremented
detach_row_loop_no_count(st, node_id, current_id) ==
    IF current_id = node_id THEN st
    ELSE LET cur == node(st, current_id)
             s1 == [st EXCEPT !.nodes[cur.up + 1].down = cur.down]
             s2 == [s1 EXCEPT !.nodes[cur.down + 1].up = cur.up]
         IN  detach_row_loop(s2, node_id, cur.right)

\* the loop of SolverState::detach_row
detach_row_loop(st, node_id, current_id) ==
    IF current_id = node_id THEN st
    ELSE LET cur == node(st, current_id)
             s1 == [st EXCEPT !.nodes[cur.up + 1].down = cur.down]
             s2 == [s1 EXCEPT !.nodes[cur.down + 1].up = cur.up]
             s3 == [s2 EXCEPT !.column_sizes[cur.col + 1] = @ - 1]
         IN  detach_row_loop(s3, node_id, cur.right)

\* SolverState::detach_row
detach_row(st, node_id) == detach_row_loop(st, node_id, node(st, node_id).right)

RECURSIVE attach_row_loop(_, _, _)

\* mutant of attach_row_loop: the column counter is not incremented
attach_row_loop_no_count(st, node_id, current_id) ==
    IF current_id = node_id THEN st
    ELSE LET cur == node(st, current_id)
             s2 == [st EXCEPT !.nodes[cur.down + 1].up = current_id]
             s3 == [s2 EXCEPT !.nodes[cur.up + 1].down = current_id]
         IN  attach_row_loop(s3, node_id, cur.left)

\* the loop of SolverState::attach_row
attach_row_loop(st, node_id, current_id) ==
    IF current_id = node_id THEN st
    ELSE LET cur == node(st, current_id)
             s1 == [st EXCEPT !.column_sizes[cur.col + 1] = @ + 1]
             s2 == [s1 EXCEPT !.nodes[cur.down + 1].up = current_id]
             s3 == [s2 EXCEPT !.nodes[cur.up + 1].down = current_id]
         IN  attach_row_loop(s3, node_id, cur.left)

\* SolverState::attach_row
attach_row(st, node_id) == attach_row_loop(st, node_id, node(st, node_id).left)

\* SolverState::node_column_size
node_column_size(st, id) == st.column_sizes[node(st, id).col + 1]

(***************************************************************************)
(* Solver: cover, uncover, choose_column                                   *)
(***************************************************************************)
\* the while loop of Solver::cover
RECURSIVE cover_loop(_, _, _)
cover_loop(st, node_header_id, down_id) ==
    IF down_id = node_header_id THEN st
    ELSE LET s1 == detach_row(st, down_id)
         IN  cover_loop(s1, node_header_id, node(s1, down_id).down)

\* Solver::cover
cover(st, node_id) ==
    LET s1 == detach_column(st, node_id)
        node_header_id == node(s1, node_id).header
    IN  cover_loop(s1, node_header_id, node(s1, node_header_id).down)

\* the while loop of Solver::uncover
RECURSIVE uncover_loop(_, _, _)
uncover_loop(st, node_header_id, up_id) ==
    IF up_id = node_header_id THEN st
    ELSE LET s1 == attach_row(st, up_id)
         IN  uncover_loop(s1, node_header_id, node(s1, up_id).up)

\* Solver::uncover
uncover(st, node_id) ==
    LET node_header_id == node(st, node_id).header
        s1 == uncover_loop(st, node_header_id, node(st, node_header_id).up)
    IN  attach_column(s1, node_id)

RECURSIVE choose_column_loop(_, _, _, _)

\* mutant of choose_column_loop: a column as small as the best so far
\* replaces it
choose_column_loop_last(st, current_node_id, best_column_id, best_size) ==
    IF current_node_id = st.header THEN best_column_id
    ELSE LET current_size == node_column_size(st, current_node_id)
             next_id == node(st, current_node_id).right
         IN  IF current_size <= best_size
             THEN choose_column_loop(st, next_id, Some(current_node_id), current_size)
             ELSE choose_column_loop(st, next_id, best_column_id, best_size)

\* the while loop of Solver::choose_column; best is an Option<NodeId>
choose_column_loop(st, current_node_id, best_column_id, best_size) ==
    IF current_node_id = st.header THEN best_column_id
    ELSE LET current_size == node_column_size(st, current_node_id)
             next_id == node(st, current_node_id).right
         IN  IF current_size < best_size
             THEN choose_column_loop(st, next_id, Some(current_node_id), current_size)
             ELSE choose_column_loop(st, next_id, best_column_id, best_size)

\* Solver::choose_column
choose_column(st) ==
    LET best == choose_column_loop(st, node(st, st.header).right, None, usize_MAX)
    IN  IF best.some THEN Some(node(st, best.value).down) ELSE None

(***************************************************************************)
(* Solver::new                                                             *)
(*                                                                         *)
(* The function is split at its statements: each operator below is a       *)
(* segment of the body and receives the locals computed so far.            *)
(***************************************************************************)
\* maximum of a non-empty set of naturals
SetMax(S) == CHOOSE x \in S : \A y \in S : y <= x

\* minimum of a non-empty set of naturals
SetMin(S) == CHOOSE x \in S : \A y \in S : x <= y

\* rows.iter().flatten().copied().max().unwrap_or_default() + 1
column_count(rs) ==
    LET all == UNION {{rs[i][j] : j \in 1..Len(rs[i])} : i \in 1..Len(rs)}
    IN  (IF all = {} THEN 0 ELSE SetMax(all)) + 1

\* vec![v; n]
RECURSIVE vec(_, _)
vec(v, n) == IF n = 0 THEN <<>> ELSE Append(vec(v, n - 1), v)

\* a Step
Step(node_id, backtracking) == [node_id |-> node_id, backtracking |-> backtracking]

\* `if let Some(node_id) = self.choose_column() { self.step_stack.push(forward step) }`
push_chosen(stack, chosen) ==
    IF chosen.some THEN Append(stack, Step(chosen.value, FALSE)) ELSE stack

\* Solver::default()
Solver_default ==
    [state |-> [nodes |-> <<>>, header |-> invalid, column_sizes |-> <<>>],
     step_stack |-> <<>>,
     partial_solution |-> <<>>]

\* the locals of Solver::new before the loop over the rows
new_locals(cc) ==
    [st |-> [nodes |-> <<>>, header |-> invalid, column_sizes |-> vec(0, cc)],
     header_row |-> <<>>,
     above_nodes |-> vec(invalid, cc),
     columns_to_cover |-> <<>>,
     first |-> invalid,
     prev |-> invalid]

\* inner loop body, first part: the new data node with its row and col, the
\* column counter incremented, linked to the previous node of the row
new_data_node(st, prev, row_idx, col_idx) ==
    LET node_id == new_node_id(st)
        s1 == [new_node(st) EXCEPT !.nodes[node_id + 1].row = row_idx,
                                   !.nodes[node_id + 1].col = col_idx,
                                   !.column_sizes[col_idx + 1] = @ + 1]
    IN  IF is_valid(prev) THEN link_horizontal(s1, prev, node_id) ELSE s1

\* state.header_node_mut(node_id).up = node_id
set_header_up(st, node_id) == [st EXCEPT !.nodes[node(st, node_id).header + 1].up = node_id]

\* inner loop body, `if above_id.is_valid()` branch: insert the node below above_id
new_below(st, above_id, node_id) ==
    LET above_down_id == node(st, above_id).down
        above_header_id == node(st, above_id).header
    IN  set_header_up([st EXCEPT !.nodes[above_id + 1].down = node_id,
                                 !.nodes[node_id + 1].up = above_id,
                                 !.nodes[node_id + 1].down = above_down_id,
                                 !.nodes[node_id + 1].header = above_header_id],
                      node_id)

\* inner loop body, else branch: a new column header above the node
new_header(st, node_id, col_idx) ==
    LET header_id == new_node_id(st)
    IN  [new_node(st) EXCEPT !.nodes[header_id + 1].row = -1,
                             !.nodes[header_id + 1].col = col_idx,
                             !.nodes[header_id + 1].header = header_id,
                             !.nodes[header_id + 1].up = node_id,
                             !.nodes[header_id + 1].down = node_id,
                             !.nodes[node_id + 1].up = header_id,
                             !.nodes[node_id + 1].down = header_id,
                             !.nodes[node_id + 1].header = header_id]

\* inner loop body, second part: st already holds the new data node node_id
new_column_link(b, st, fc, node_id, col_idx) ==
    LET above_id == b.above_nodes[col_idx + 1]
    IN  [st |-> IF is_valid(above_id) THEN new_below(st, above_id, node_id)
                ELSE new_header(st, node_id, col_idx),
         header_row |-> IF is_valid(above_id) THEN b.header_row
                        ELSE Append(b.header_row, new_node_id(st)),
         above_nodes |-> [b.above_nodes EXCEPT ![col_idx + 1] = node_id],
         columns_to_cover |->
             IF col_idx \in fc /\ col_idx \notin DOMAIN b.columns_to_cover
             THEN (col_idx :> node_id) @@ b.columns_to_cover
             ELSE b.columns_to_cover,
         first |-> IF ~is_valid(b.first) THEN node_id ELSE b.first,
         prev |-> node_id]

\* body of the inner loop of Solver::new (one column index of one row)
new_cell(b, fc, row_idx, col_idx) ==
    new_column_link(b, new_data_node(b.st, b.prev, row_idx, col_idx), fc,
                    new_node_id(b.st), col_idx)

\* the inner loop of Solver::new over the column indices of one row
RECURSIVE new_row_loop(_, _, _, _, _)
new_row_loop(b, fc, row_idx, row, j) ==
    IF j > Len(row) THEN b
    ELSE new_row_loop(new_cell(b, fc, row_idx, row[j]), fc, row_idx, row, j + 1)

\* after the inner loop: close the ring of the row
new_row_close(b) ==
    IF is_valid(b.first) /\ is_valid(b.prev)
    THEN [b EXCEPT !.st = link_horizontal(@, b.prev, b.first)]
    ELSE b

\* the outer loop of Solver::new over the rows (row_idx = i - 1 is 0-based)
RECURSIVE new_rows_loop(_, _, _, _)
new_rows_loop(b, fc, rs, i) ==
    IF i > Len(rs) THEN b
    ELSE new_rows_loop(
             new_row_close(new_row_loop([b EXCEPT !.first = invalid, !.prev = invalid],
                                        fc, i - 1, rs[i], 1)),
             fc, rs, i + 1)

\* header_row.sort_by(col): a stable sort by ascending column index
RECURSIVE sort_by_col(_, _)
sort_by_col(st, hs) ==
    IF hs = <<>> THEN <<>>
    ELSE LET k == CHOOSE k \in 1..Len(hs) :
                      /\ \A m \in 1..Len(hs) : node(st, hs[k]).col <= node(st, hs[m]).col
                      /\ \A m \in 1..(k - 1) : node(st, hs[m]).col # node(st, hs[k]).col
         IN  <<hs[k]>> \o sort_by_col(st, SubSeq(hs, 1, k - 1) \o SubSeq(hs, k + 1, Len(hs)))

\* header_row.windows(2).for_each(link_horizontal)
RECURSIVE link_windows(_, _, _)
link_windows(st, hs, k) ==
    IF k >= Len(hs) THEN st
    ELSE link_windows(link_horizontal(st, hs[k], hs[k + 1]), hs, k + 1)

\* first.left = last; last.right = first; then the windows
link_header_row(st, header_row) ==
    LET first_header_id == header_row[1]
        last_header_id == header_row[Len(header_row)]
    IN  link_windows([[st EXCEPT !.nodes[first_header_id + 1].left = last_header_id]
                         EXCEPT !.nodes[last_header_id + 1].right = first_header_id],
                     header_row, 1)

\* the root: a new node spliced between the last and the first header
link_root(st, first_header_id, last_header_id) ==
    LET header_root_id == new_node_id(st)
    IN  [[[[[new_node(st)
             EXCEPT !.nodes[header_root_id + 1].right = first_header_id]
             EXCEPT !.nodes[first_header_id + 1].left = header_root_id]
             EXCEPT !.nodes[header_root_id + 1].left = last_header_id]
             EXCEPT !.nodes[last_header_id + 1].right = header_root_id]
             EXCEPT !.header = header_root_id]

\* mutant of cover_forced: no forced column is covered
cover_forced_none(st, orig, columns_to_cover, keys) == st

\* mutant of cover_forced: only the lowest forced column is covered
cover_forced_first_only(st, orig, columns_to_cover, keys) ==
    IF keys = {} THEN st
    ELSE cover(st, node(orig, node(orig, columns_to_cover[SetMin(keys)]).header).down)

\* the loop over columns_to_cover.values() (a BTreeMap: ascending keys); the
\* node to cover is read from the builder's state `orig`, the covers are
\* applied to the solver's clone `st`
RECURSIVE cover_forced(_, _, _, _)
cover_forced(st, orig, columns_to_cover, keys) ==
    IF keys = {} THEN st
    ELSE LET c == SetMin(keys)
             column_node_id == columns_to_cover[c]
             column_first_node_id == node(orig, node(orig, column_node_id).header).down
         IN  cover_forced(cover(st, column_first_node_id), orig, columns_to_cover,
                          keys \ {c})

\* end of Solver::new: the first forward step, if a column is left
new_search(st) ==
    [state |-> st,
     step_stack |-> push_chosen(<<>>, choose_column(st)),
     partial_solution |-> <<>>]

\* Solver::new from the linked mesh on: the solver clones the state and
\* covers the forced columns
new_solver(st, columns_to_cover) ==
    new_search(cover_forced(st, st, columns_to_cover, DOMAIN columns_to_cover))

\* Solver::new from the sorted header row on
new_headers(st, header_row, columns_to_cover) ==
    new_solver(link_root(link_header_row(st, header_row),
                         header_row[1], header_row[Len(header_row)]),
               columns_to_cover)

\* Solver::new after the loop over the rows: sort the headers; no header,
\* no solver
new_mesh(b) ==
    IF b.header_row = <<>> THEN Solver_default
    ELSE new_headers(b.st, sort_by_col(b.st, b.header_row), b.columns_to_cover)

\* Solver::new(rows, partial_solution); fc is the parameter partial_solution
new(rs, fc) == new_mesh(new_rows_loop(new_locals(column_count(rs)), fc, rs, 1))

(***************************************************************************)
(* Solver::step and the iterator                                           *)
(***************************************************************************)
RECURSIVE step_forward_loop(_, _, _)

\* mutant of step_forward_covered: the loop ends after the first cover
step_forward_covered_once(st, node_id, current_id) == st

\* the cover loop of Solver::step_forward, after cover(current_id)
step_forward_covered(st, node_id, current_id) ==
    IF node(st, current_id).right = node_id THEN st
    ELSE step_forward_loop(st, node_id, node(st, current_id).right)

\* the cover loop of Solver::step_forward
step_forward_loop(st, node_id, current_id) ==
    step_forward_covered(cover(st, current_id), node_id, current_id)

\* mutant of step_forward_push: the backtracking step is pushed twice
step_forward_push_twice(sv, node_id, st) ==
    [state |-> st,
     step_stack |-> push_chosen(Append(Append(sv.step_stack, Step(node_id, TRUE)),
                                       Step(node_id, TRUE)),
                                choose_column(st)),
     partial_solution |-> Append(sv.partial_solution, node(sv.state, node_id).row)]

\* mutant of step_forward_push: no backtracking step is pushed
step_forward_push_no_backtrack(sv, node_id, st) ==
    [state |-> st,
     step_stack |-> push_chosen(sv.step_stack, choose_column(st)),
     partial_solution |-> Append(sv.partial_solution, node(sv.state, node_id).row)]

\* Solver::step_forward after the cover loop; st is the covered state
step_forward_push(sv, node_id, st) ==
    [state |-> st,
     step_stack |-> push_chosen(Append(sv.step_stack, Step(node_id, TRUE)),
                                choose_column(st)),
     partial_solution |-> Append(sv.partial_solution, node(sv.state, node_id).row)]

\* Solver::step_forward
step_forward(sv, node_id) ==
    step_forward_push(sv, node_id, step_forward_loop(sv.state, node_id, node_id))

\* the uncover loop of Solver::step_backward, after uncover(current_id)
RECURSIVE step_backward_loop(_, _, _)
step_backward_uncovered(st, node_id, current_id) ==
    IF current_id = node_id THEN st
    ELSE step_backward_loop(st, node_id, node(st, current_id).left)

\* the uncover loop of Solver::step_backward
step_backward_loop(st, node_id, current_id) ==
    step_backward_uncovered(uncover(st, current_id), node_id, current_id)

\* Vec::pop on a possibly empty vector
pop(v) == IF v = <<>> THEN v ELSE SubSeq(v, 1, Len(v) - 1)

\* mutant of step_backward_push: the next row of the column is never tried
step_backward_push_no_sibling(sv, node_id, st) ==
    [state |-> st,
     step_stack |-> sv.step_stack,
     partial_solution |-> pop(sv.partial_solution)]

\* mutant of step_backward_push: the row stays in partial_solution
step_backward_push_keep_row(sv, node_id, st) ==
    [state |-> st,
     step_stack |-> IF node(st, node_id).down # node(st, node_id).header
                    THEN Append(sv.step_stack, Step(node(st, node_id).down, FALSE))
                    ELSE sv.step_stack,
     partial_solution |-> sv.partial_solution]

\* mutant of step_backward_push: the forward step on the next row of the
\* column is pushed twice
step_backward_push_sibling_twice(sv, node_id, st) ==
    [state |-> st,
     step_stack |-> IF node(st, node_id).down # node(st, node_id).header
                    THEN Append(Append(sv.step_stack, Step(node(st, node_id).down, FALSE)),
                                Step(node(st, node_id).down, FALSE))
                    ELSE sv.step_stack,
     partial_solution |-> pop(sv.partial_solution)]

\* Solver::step_backward after the uncover loop; st is the uncovered state
step_backward_push(sv, node_id, st) ==
    LET node_down == node(st, node_id).down
        node_header == node(st, node_id).header
    IN  [state |-> st,
         step_stack |-> IF node_down # node_header
                        THEN Append(sv.step_stack, Step(node_down, FALSE))
                        ELSE sv.step_stack,
         partial_solution |-> pop(sv.partial_solution)]

\* mutant of step_backward: the uncovers walk the row to the right from the
\* node, in the order of the covers
RECURSIVE uncover_right_loop(_, _, _)
uncover_right_next(st, node_id, current_id) ==
    IF node(st, current_id).right = node_id THEN st
    ELSE uncover_right_loop(st, node_id, node(st, current_id).right)

uncover_right_loop(st, node_id, current_id) ==
    uncover_right_next(uncover(st, current_id), node_id, current_id)

step_backward_cover_order(sv, node_id) ==
    step_backward_push(sv, node_id, uncover_right_loop(sv.state, node_id, node_id))

\* Solver::step_backward
step_backward(sv, node_id) ==
    step_backward_push(sv, node_id,
                       step_backward_loop(sv.state, node_id, node(sv.state, node_id).left))

\* Solver::is_completed
is_completed(sv) == sv.step_stack = <<>>

\* mutant of step_result: a solution is reported when at most one column
\* header is left in the header row
step_result_one_left(sv, top) ==
    [solver |-> sv,
     ret |-> IF node(sv.state, node(sv.state, sv.state.header).right).right = sv.state.header
             THEN Some(sv.partial_solution) ELSE None,
     popped |-> Some(top)]

\* mutant of step_result: the header row is not looked at
step_result_unchecked(sv, top) ==
    [solver |-> sv, ret |-> Some(sv.partial_solution), popped |-> Some(top)]

\* end of Solver::step: a copy of partial_solution when the header row is empty
step_result(sv, top) ==
    [solver |-> sv,
     ret |-> IF node(sv.state, sv.state.header).right = sv.state.header
             THEN Some(sv.partial_solution) ELSE None,
     popped |-> Some(top)]

\* mutant of step_popped: a step on a column header is left on the stack
step_popped_keep_header(sv, top) ==
    IF top.node_id = node(sv.state, top.node_id).header
    THEN [solver |-> [sv EXCEPT !.step_stack = Append(@, top)],
          ret |-> None, popped |-> Some(top)]
    ELSE step_result(IF top.backtracking THEN step_backward(sv, top.node_id)
                     ELSE step_forward(sv, top.node_id),
                     top)

\* mutant of step_popped: a step on a column header takes the last row off
\* partial_solution
step_popped_header_unchoose(sv, top) ==
    IF top.node_id = node(sv.state, top.node_id).header
    THEN [solver |-> [sv EXCEPT !.partial_solution = pop(@)],
          ret |-> None, popped |-> Some(top)]
    ELSE step_result(IF top.backtracking THEN step_backward(sv, top.node_id)
                     ELSE step_forward(sv, top.node_id),
                     top)

\* Solver::step after the pop; sv has the stack without top
step_popped(sv, top) ==
    IF top.node_id = node(sv.state, top.node_id).header
    THEN [solver |-> sv, ret |-> None, popped |-> Some(top)]
    ELSE step_result(IF top.backtracking THEN step_backward(sv, top.node_id)
                     ELSE step_forward(sv, top.node_id),
                     top)

\* Solver::step: the solver after the call, the value returned, and the
\* Step that was popped (None when the stack was empty)
step(sv) ==
    IF sv.step_stack = <<>> THEN [solver |-> sv, ret |-> None, popped |-> None]
    ELSE step_popped([sv EXCEPT !.step_stack = pop(@)], sv.step_stack[Len(sv.step_stack)])

RECURSIVE next_loop(_)

\* mutant of next_stepped: the row of a solution is undone before the
\* solution is returned
next_stepped_eager(r) ==
    IF r.ret.some THEN [step(r.solver) EXCEPT !.ret = r.ret] ELSE next_loop(r)

\* Iterator::next, after a step() of the loop returned r
next_stepped(r) == IF r.ret.some THEN r ELSE next_loop(r)

\* mutant of next_loop: at the end of the stream the partial solution is
\* returned
next_loop_some(r) ==
    IF is_completed(r.solver) THEN [r EXCEPT !.ret = Some(r.solver.partial_solution)]
    ELSE next_stepped(step(r.solver))

\* Iterator::next: step until a solution is returned or the stack is empty;
\* r carries the latest step's result
next_loop(r) ==
    IF is_completed(r.solver) THEN [r EXCEPT !.ret = None]
    ELSE next_stepped(step(r.solver))

(***************************************************************************)
(* History of the forward steps                                            *)
(***************************************************************************)
\* the columns on which Solver::step_forward calls cover, in call order: from
\* current_id along right until node_id comes up again
RECURSIVE cover_walk(_, _, _)
cover_walk(st, node_id, current_id) ==
    <<node(st, current_id).col>>
        \o (IF node(st, current_id).right = node_id THEN <<>>
            ELSE cover_walk(st, node_id, node(st, current_id).right))

\* the columns on which Solver::step_backward calls uncover, in call order:
\* from current_id along left up to and including node_id
RECURSIVE uncover_walk(_, _, _)
uncover_walk(st, node_id, current_id) ==
    <<node(st, current_id).col>>
        \o (IF current_id = node_id THEN <<>>
            ELSE uncover_walk(st, node_id, node(st, current_id).left))

\* what a forward step on node_id finds (mesh, counters, partial_solution)
\* and the order of its covers
forward_entry(sv, node_id) ==
    [state |-> sv.state,
     partial_solution |-> sv.partial_solution,
     node_id |-> node_id,
     covered |-> cover_walk(sv.state, node_id, node_id)]

\* the backtracking step on node_id matched with the latest forward step
\* not yet undone, and the order of its uncovers
backward_entry(sv, node_id, log) ==
    [matched |-> log # <<>>,
     forward |-> IF log # <<>> THEN log[Len(log)] ELSE forward_entry(sv, node_id),
     node_id |-> node_id,
     uncovered |-> uncover_walk(sv.state, node_id, node(sv.state, node_id).left)]

\* the history after the step that pops top from the solver sv
log_popped(sv, top, log) ==
    IF top.node_id = node(sv.state, top.node_id).header
    THEN [log |-> log, undone |-> None]
    ELSE IF top.backtracking
         THEN [log |-> pop(log), undone |-> Some(backward_entry(sv, top.node_id, log))]
         ELSE [log |-> Append(log, forward_entry(sv, top.node_id)), undone |-> None]

\* the history after one Solver::step on sv
log_step(sv, log) ==
    IF sv.step_stack = <<>> THEN [log |-> log, undone |-> None]
    ELSE log_popped(sv, sv.step_stack[Len(sv.step_stack)], log)

\* the history after Iterator::next on sv: that of its step() calls
RECURSIVE log_next(_, _)
log_stepped(r, g) == IF r.ret.some THEN g ELSE log_next(r.solver, g)

log_next(sv, g) ==
    IF is_completed(sv) THEN g ELSE log_stepped(step(sv), log_step(sv, g.log))

(***************************************************************************)
(* The inputs explored                                                     *)
(***************************************************************************)
Cols == 0..(NumCols - 1)

\* the elements of a set of column indices in ascending order
RECURSIVE Ascending(_)
Ascending(S) == IF S = {} THEN <<>> ELSE <<SetMin(S)>> \o Ascending(S \ {SetMin(S)})

\* a row lists distinct column indices in ascending order; it may be empty
RowSet == {Ascending(S) : S \in SUBSET Cols}

\* the instance of tests::test_basic_solve
TestRows == << <<0, 1>>, <<0, 2>>, <<1, 3>>, <<2, 3>>, <<0, 1, 2>>, <<1, 2, 3>> >>

TestForced == {0, 2}

Inputs ==
    {<<rs, fc>> : rs \in UNION {[1..n -> RowSet] : n \in 0..MaxRows}, fc \in SUBSET Cols}
        \cup {<<TestRows, TestForced>>, <<TestRows, {}>>}

(***************************************************************************)
(* The state machine                                                       *)
(***************************************************************************)
\* the Solver value held in the variables
Solver == [state |-> state, step_stack |-> step_stack,
           partial_solution |-> partial_solution]

\* the caller's view after the call `call` ended as r
Returned(call, r) ==
    /\ op' = call
    /\ state' = r.solver.state
    /\ step_stack' = r.solver.step_stack
    /\ partial_solution' = r.solver.partial_solution
    /\ ret' = r.ret
    /\ popped' = r.popped
    /\ collected' = IF r.ret.some THEN Append(collected, r.ret.value) ELSE collected
    /\ UNCHANGED <<rows, forced>>

\* the history after the call
Logged(g) == undo_log' = g.log /\ undone' = g.undone

\* the state after Solver::new(rs, fc) returned sv
Constructed(rs, fc, sv) ==
    /\ rows = rs
    /\ forced = fc
    /\ state = sv.state
    /\ step_stack = sv.step_stack
    /\ partial_solution = sv.partial_solution
    /\ ret = None
    /\ popped = None
    /\ op = "new"
    /\ collected = <<>>
    /\ undo_log = <<>>
    /\ undone = None

Init == \E in \in Inputs : Constructed(in[1], in[2], new(in[1], in[2]))

\* one call of Solver::step
StepCall ==
    /\ \E r \in {step(Solver)} : Returned("step", r)
    /\ Logged(log_step(Solver, undo_log))

\* one call of Iterator::next
NextCall ==
    \E r \in {next_loop([solver |-> Solver, ret |-> None, popped |-> popped])} :
        Returned("next", r)
    /\ Logged(log_next(Solver, [log |-> undo_log, undone |-> None]))

Next == StepCall \/ NextCall

Spec == Init /\ [][Next]_vars

\* The caller keeps calling step().  This is WF_vars(StepCall) with its
\* ENABLED written as a state predicate: a step() on a non-empty stack pops
\* it and so changes the state, hence StepCall can only be disabled when the
\* stack is empty, and weak fairness of StepCall implies this condition.
\* Only step() is called here: next() is a loop of step() calls and returns
\* exactly when they reach a solution or the empty stack.
FairSpec ==
    Init /\ [][StepCall]_vars /\ ([]<>is_completed(Solver) \/ []<><<StepCall>>_vars)

(***************************************************************************)
(* Vocabulary of the properties                                            *)
(***************************************************************************)
\* the 0-based row indices of the input
RowIdx == 0..(Len(rows) - 1)

\* the columns of input row i
RowCols(i) == {rows[i + 1][j] : j \in 1..Len(rows[i + 1])}

\* the columns that occur in the input
Occurring == UNION {RowCols(i) : i \in RowIdx}

\* the input rows that list at least one column
NonEmptyRowIdx == {i \in RowIdx : RowCols(i) # {}}

\* the rows of a solution vector, as a set
RowsOf(sol) == {sol[k] : k \in 1..Len(sol)}

\* the solutions returned so far, each as a set of row indices
Emitted == {RowsOf(collected[k]) : k \in 1..Len(collected)}

\* column c lies in exactly one row of the set S
CoveredOnce(c, S) == Cardinality({i \in S : c \in RowCols(i)}) = 1

\* column c lies in exactly one position of the solution vector sol
CoveredOnceIn(c, sol) == Cardinality({k \in 1..Len(sol) : c \in RowCols(sol[k])}) = 1

\* the stream has ended
Exhausted == is_completed(Solver)

\* the root exists and no column header is left in the header row
HeaderRowEmpty ==
    /\ is_valid(state.header)
    /\ node(state, state.header).right = state.header

\* the columns whose header is linked in the header row, from header id h on
RECURSIVE RingFrom(_)
RingFrom(h) ==
    IF h = state.header THEN {} ELSE {node(state, h).col} \cup RingFrom(node(state, h).right)

\* the columns currently in the header row
HeaderRowCols == IF is_valid(state.header) THEN RingFrom(node(state, state.header).right) ELSE {}

\* the sets of rows that avoid the columns F and cover every other occurring
\* column exactly once, taken among the rows R
CoversAmong(R, F) ==
    {S \in SUBSET R : /\ \A i \in S : RowCols(i) \cap F = {}
                      /\ \A c \in Occurring \ F : CoveredOnce(c, S)}

(***************************************************************************)
(* C1  Completeness                                                        *)
(***************************************************************************)
\* C1 as stated: with no forced column, when the stream has ended the emitted
\* sets of rows are exactly the sets of input rows in which every occurring
\* column lies in exactly one selected row.
C1_AsStated == (forced = {} /\ Exhausted) => Emitted = CoversAmong(RowIdx, {})

\* C1 amended: with no forced column and at least one column occurring in the
\* input, when the stream has ended the emitted sets of rows are exactly the
\* sets of non-empty input rows in which every occurring column lies in
\* exactly one selected row.
C1_Completeness ==
    (forced = {} /\ Occurring # {} /\ Exhausted) => Emitted = CoversAmong(NonEmptyRowIdx, {})

\* a run without forced columns has ended after emitting two covers, each of
\* two rows
C1_Witness ==
    /\ forced = {} /\ Exhausted /\ op = "step"
    /\ Cardinality(Emitted) = 2
    /\ \A S \in Emitted : Cardinality(S) = 2

C3_AsStated ==
    (Occurring \ forced # {} /\ Exhausted) => Emitted = CoversAmong(RowIdx, forced)

\* C3 amended: the same, the sets being taken among the non-empty rows.
C3_ForcedPreCovered ==
    (Occurring \ forced # {} /\ Exhausted) => Emitted = CoversAmong(NonEmptyRowIdx, forced)

\* the six-row test instance with forced columns {0, 2} has ended after
\* emitting exactly [[2]]
C3_Witness ==
    /\ rows = TestRows /\ forced = TestForced
    /\ Exhausted /\ collected = << <<2>> >>

(***************************************************************************)
(* C4  Forced-column pinning                                               *)
(***************************************************************************)
\* the header of column c
HeaderOf(c) ==
    CHOOSE h \in 0..(Len(state.nodes) - 1) :
        node(state, h).header = h /\ node(state, h).col = c

\* the topmost row left in forced column c when it was covered (none when
\* the column was empty by then)
PinnedRows ==
    {node(state, node(state, HeaderOf(c)).down).row : c \in forced \cap Occurring} \ {-1}

\* C4 as stated: a returned solution together with the topmost rows of the
\* forced columns covers every occurring column exactly once.
C4_AsStated ==
    ret.some => \A c \in Occurring : CoveredOnce(c, RowsOf(ret.value) \cup PinnedRows)

\* C4 amended: construction covers each forced column without choosing a row
\* for it: no forced column is ever in the header row, the columns of the
\* topmost row through a forced column that are not forced themselves are in
\* the header row when construction returns, and a returned solution
\* contains no row through a forced column and covers every occurring
\* unforced column exactly once.
C4_ForcedCovered ==
    /\ HeaderRowCols \cap forced = {}
    /\ op = "new" => HeaderRowCols = Occurring \ forced
    /\ ret.some => /\ \A k \in 1..Len(ret.value) : RowCols(ret.value[k]) \cap forced = {}
                   /\ \A c \in Occurring \ forced : CoveredOnceIn(c, ret.value)

\* a solution was returned that shares a column with the topmost row of a
\* forced column
C4_Witness ==
    /\ ret.some
    /\ \E i \in PinnedRows : \E k \in 1..Len(ret.value) :
           RowCols(i) \cap RowCols(ret.value[k]) # {}

(***************************************************************************)
(* C5  Termination                                                         *)
(***************************************************************************)
\* C5: a caller that keeps calling step() reaches an empty step stack, and
\* an instance without an exact cover never emits anything.  The middle
\* conjunct is what makes the fairness of FairSpec weak fairness of step():
\* a step() on a non-empty stack always changes the solver.
C5_Termination ==
    /\ <>Exhausted
    /\ [](~Exhausted => step(Solver).solver # Solver)
    /\ [](CoversAmong(RowIdx, forced) = {} => collected = <<>>)

\* an instance without an exact cover was stepped until its stack emptied
C5_Witness ==
    /\ Exhausted /\ op = "step" /\ popped.some
    /\ CoversAmong(RowIdx, forced) = {}
    /\ collected = <<>>

(***************************************************************************)
(* C6  Lazy resumption                                                     *)
(***************************************************************************)
\* C6: a solution is returned by a forward step only, and right after it the
\* top of the step stack is the backtracking step of the node that step
\* tried, whose row is the last row of the solution; partial_solution still
\* holds the solution.
C6_LazyResumption ==
    ret.some =>
        /\ popped.some /\ ~popped.value.backtracking
        /\ step_stack # <<>>
        /\ step_stack[Len(step_stack)] = Step(popped.value.node_id, TRUE)
        /\ ret.value # <<>>
        /\ node(state, popped.value.node_id).row = ret.value[Len(ret.value)]
        /\ partial_solution = ret.value

\* a second solution was returned by a pull that resumed after the first one
C6_Witness == ret.some /\ op = "next" /\ Len(collected) = 2 /\ Len(ret.value) = 2

(***************************************************************************)
(* C7  Solution detection                                                  *)
(***************************************************************************)
\* what a step() reports: a solution exactly when the header row is empty,
\* and then a copy of partial_solution
Detects ==
    /\ ret.some <=> HeaderRowEmpty
    /\ ret.some => ret.value = partial_solution

\* C7 as stated: after any call of step(), a solution was returned exactly
\* when the root's right link is the root.
C7_AsStated == op = "step" => Detects

\* C7 amended: after any call of step() that popped a step, a solution was
\* returned exactly when the root's right link is the root, and it is a
\* copy of partial_solution; a step() on an empty stack returns none.
C7_SolutionDetection ==
    /\ (op = "step" /\ popped.some) => Detects
    /\ (op = "step" /\ ~popped.some) => ~ret.some

\* a backtracking step was popped and nothing returned, after a solution
\* had been returned by an earlier step
C7_Witness ==
    /\ op = "step" /\ popped.some /\ popped.value.backtracking
    /\ ~ret.some /\ collected # <<>>

(***************************************************************************)
(* C8  Stack drain                                                         *)
(***************************************************************************)
\* C8: whenever the step stack is empty, partial_solution is empty.
C8_StackDrain == Exhausted => partial_solution = <<>>

\* the stream ended by a step after two solutions were emitted
C8_Witness == Exhausted /\ popped.some /\ Len(collected) = 2

(***************************************************************************)
(* C9  Idempotent enumeration                                              *)
(***************************************************************************)
\* C9: once the step stack is empty, every call returns none and leaves the
\* mesh, column_sizes, step_stack and partial_solution unchanged.
C9_Idempotent ==
    [][Exhausted => /\ ret' = None
                    /\ UNCHANGED <<state, step_stack, partial_solution>>]_vars

\* next() was called on an exhausted stream that had emitted a solution
C9_Witness == Exhausted /\ op = "next" /\ ~ret.some /\ ~popped.some /\ collected # <<>>

(***************************************************************************)
(* C10  Bounded stacks                                                     *)
(***************************************************************************)
\* C10: partial_solution and step_stack are never longer than the number of
\* distinct column indices of the input.
C10_BoundedStacks ==
    /\ Len(partial_solution) <= Cardinality(Occurring)
    /\ Len(step_stack) <= Cardinality(Occurring)

\* both stacks are as long as the number of columns, which is at least two
C10_Witness ==
    /\ Cardinality(Occurring) >= 2
    /\ Len(step_stack) = Cardinality(Occurring)
    /\ Len(partial_solution) = Cardinality(Occurring)

(***************************************************************************)
(* C11  Cover/uncover reversibility                                        *)
(***************************************************************************)
\* the node ids of the node store
NodeIds == 0..(Len(state.nodes) - 1)

\* the ids of the column headers linked in the header row, from header id h on
RECURSIVE RingIdsFrom(_)
RingIdsFrom(h) ==
    IF h = state.header THEN {} ELSE {h} \cup RingIdsFrom(node(state, h).right)

\* the ids of the column headers currently in the header row
HeaderRowIds ==
    IF is_valid(state.header) THEN RingIdsFrom(node(state, state.header).right) ELSE {}

\* cover(n) immediately followed by uncover(n), applied to the state st; the
\* header of the root is the invalid handle, and indexing the node vector
\* with it panics
cover_uncover(st, n) ==
    IF is_valid(node(st, n).header)
    THEN [ok |-> TRUE, st |-> uncover(cover(st, n), n)]
    ELSE [ok |-> FALSE, st |-> st]

\* cover(n); uncover(n) runs through and leaves the mesh and the counters of
\* the current state as they were
Reversible(n) ==
    /\ cover_uncover(state, n).ok
    /\ cover_uncover(state, n).st = state

Reverse(s) == [k \in 1..Len(s) |-> s[Len(s) + 1 - k]]

\* C12: when the latest step was the backtracking step on a node n, it is
\* matched with the forward step on n; the mesh, column_sizes and
\* partial_solution are now what that forward step found, and the uncovers
\* went through the columns of n's row in the reverse of the order of the
\* covers.
C12_MatchingUndo ==
    undone.some =>
        /\ undone.value.matched
        /\ undone.value.forward.node_id = undone.value.node_id
        /\ state = undone.value.forward.state
        /\ partial_solution = undone.value.forward.partial_solution
        /\ undone.value.uncovered = Reverse(undone.value.forward.covered)

\* a row of two columns was undone below another row still chosen, after a
\* solution had been found
C12_Witness ==
    /\ undone.some /\ op = "step"
    /\ Len(undone.value.forward.covered) = 2
    /\ undone.value.forward.covered[1] # undone.value.forward.covered[2]
    /\ partial_solution # <<>>
    /\ collected # <<>>

(***************************************************************************)
(* C13  Column-size invariant                                              *)
(***************************************************************************)
\* the number of nodes met from d along down before the header h comes up
RECURSIVE DownCount(_, _)
DownCount(h, d) == IF d = h THEN 0 ELSE 1 + DownCount(h, node(state, d).down)

\* C13: for every column header linked in the header row, the column's
\* counter is the number of data nodes linked below the header.
C13_ColumnSize ==
    \A h \in HeaderRowIds :
        state.column_sizes[node(state, h).col + 1] = DownCount(h, node(state, h).down)

\* after a step, with a row chosen, a column of the header row has one data
\* node left of the rows that list it, which are three or more
C13_Witness ==
    /\ op = "step" /\ partial_solution # <<>>
    /\ \E h \in HeaderRowIds :
           /\ state.column_sizes[node(state, h).col + 1] = 1
           /\ Cardinality({i \in RowIdx : node(state, h).col \in RowCols(i)}) >= 3

(***************************************************************************)
(* C14  Ring well-formedness                                               *)
(***************************************************************************)
\* following right from x comes to the root within k links
RECURSIVE RightReturns(_, _)
RightReturns(x, k) ==
    \/ x = state.header
    \/ k > 0 /\ x \in NodeIds /\ RightReturns(node(state, x).right, k - 1)

\* following down from d comes to the header h within k links
RECURSIVE DownReturns(_, _, _)
DownReturns(h, d, k) ==
    \/ d = h
    \/ k > 0 /\ d \in NodeIds /\ DownReturns(h, node(state, d).down, k - 1)

\* the ids of the nodes met from d along down before the header h comes up
RECURSIVE DownIdsFrom(_, _)
DownIdsFrom(h, d) == IF d = h THEN {} ELSE {d} \cup DownIdsFrom(h, node(state, d).down)

\* the left and right links of x and of its neighbours agree
HorizontalOk(x) ==
    /\ node(state, x).right \in NodeIds /\ node(state, x).left \in NodeIds
    /\ node(state, node(state, x).right).left = x
    /\ node(state, node(state, x).left).right = x

\* the up and down links of d and of its neighbours agree
VerticalOk(d) ==
    /\ node(state, d).down \in NodeIds /\ node(state, d).up \in NodeIds
    /\ node(state, node(state, d).down).up = d
    /\ node(state, node(state, d).up).down = d

\* the column below the header h is a ring of nodes of that column
ColumnOk(h) ==
    /\ DownReturns(h, node(state, h).down, Len(state.nodes))
    /\ \A d \in {h} \cup DownIdsFrom(h, node(state, h).down) :
           VerticalOk(d) /\ node(state, d).header = h
    /\ \A d \in DownIdsFrom(h, node(state, h).down) : node(state, d).row >= 0

\* C14: in a solver that has a root, following right from the root returns
\* to the root and meets column headers only, the left and right links of
\* every node of that ring (the root included) agree with its neighbours',
\* and below every header of the ring following down returns to the header,
\* through data nodes whose up and down links agree with their neighbours'
\* and whose header link is that header.
C14_RingWellFormed ==
    is_valid(state.header) =>
        /\ RightReturns(node(state, state.header).right, Len(state.nodes))
        /\ \A x \in {state.header} \cup HeaderRowIds : HorizontalOk(x)
        /\ \A h \in HeaderRowIds :
               /\ node(state, h).header = h /\ node(state, h).row = -1
               /\ ColumnOk(h)

\* after a step, two headers are in the header row while another column is
\* covered by a chosen row, and a column of the ring has lost a data node
C14_Witness ==
    /\ op = "step" /\ partial_solution # <<>> /\ forced = {}
    /\ Cardinality(HeaderRowIds) = 2
    /\ \E h \in HeaderRowIds :
           DownCount(h, node(state, h).down)
               < Cardinality({i \in RowIdx : node(state, h).col \in RowCols(i)})

(***************************************************************************)
(* C15  Column choice                                                      *)
(***************************************************************************)
\* the ids of the headers of the header row in ring order, from header id h on
RECURSIVE RingSeqFrom(_)
RingSeqFrom(h) ==
    IF h = state.header THEN <<>> ELSE <<h>> \o RingSeqFrom(node(state, h).right)

\* the headers of the header row in ring order from root.right
RingSeq == IF is_valid(state.header) THEN RingSeqFrom(node(state, state.header).right) ELSE <<>>

\* the counter of the column of header h
SizeOf(h) == state.column_sizes[node(state, h).col + 1]

\* the smallest counter among the headers of the header row
SmallestSize == SetMin({SizeOf(RingSeq[k]) : k \in 1..Len(RingSeq)})

\* the first header in ring order among those with the smallest counter
BestHeader == RingSeq[SetMin({k \in 1..Len(RingSeq) : SizeOf(RingSeq[k]) = SmallestSize})]

\* the latest call was the construction, or its last step was a forward step
\* on a data node: the places where choose_column is called
ChoiceMade ==
    \/ op = "new"
    \/ /\ popped.some /\ ~popped.value.backtracking
       /\ popped.value.node_id # node(state, popped.value.node_id).header

\* there is a forward step on top of the step stack
ForwardOnTop == step_stack # <<>> /\ ~step_stack[Len(step_stack)].backtracking

\* C15: right after the construction or a forward step, a forward step is on
\* top of the stack exactly when the header row is not empty, and its node
\* is the down link of the first header in ring order among those with the
\* smallest column_size.
C15_ColumnChoice ==
    ChoiceMade =>
        IF RingSeq = <<>> THEN ~ForwardOnTop
        ELSE /\ ForwardOnTop
             /\ step_stack[Len(step_stack)].node_id = node(state, BestHeader).down

\* a forward step pushed a forward step on a data node while two columns of
\* the header row tied for the smallest counter
C15_Witness ==
    /\ op = "step" /\ popped.some /\ ~popped.value.backtracking
    /\ ForwardOnTop
    /\ Len(RingSeq) >= 2
    /\ Cardinality({k \in 1..Len(RingSeq) : SizeOf(RingSeq[k]) = SmallestSize}) >= 2
    /\ SmallestSize >= 1

(***************************************************************************)
(* C16  Sentinel guard                                                     *)
(***************************************************************************)
\* the step on top of the step stack is a step on a column header
HeaderOnTop ==
    /\ step_stack # <<>>
    /\ step_stack[Len(step_stack)].node_id
           = node(state, step_stack[Len(step_stack)].node_id).header

\* C16: a step() that pops a step on a column header returns none, removes
\* that one entry from step_stack and leaves every node, every column_size
\* and partial_solution as they were.
C16_SentinelGuard ==
    [][(HeaderOnTop /\ op' = "step") =>
           /\ ret' = None
           /\ step_stack' = pop(step_stack)
           /\ state' = state
           /\ partial_solution' = partial_solution]_vars

\* a step() has just popped a forward step on the header of an empty column,
\* with a row chosen and a column left in the header row
C16_Witness ==
    /\ op = "step" /\ popped.some /\ ~popped.value.backtracking
    /\ popped.value.node_id = node(state, popped.value.node_id).header
    /\ partial_solution # <<>>
    /\ popped.value.node_id \in HeaderRowIds
    /\ step_stack # <<>>

(***************************************************************************)
(* C17  No invalid handle in a finished mesh                               *)
(***************************************************************************)
\* the five link fields of node n
LinksOf(n) ==
    {node(state, n).left, node(state, n).right, node(state, n).up,
     node(state, n).down, node(state, n).header}

\* C17 as stated: in a solver that has nodes, after the construction and
\* after any number of step() calls, no link field of any node, the column
\* headers and the root included, is the invalid handle.
C17_NoInvalidHandle ==
    state.nodes # <<>> => \A n \in NodeIds : \A l \in LinksOf(n) : is_valid(l)

(***************************************************************************)
(* C18  No duplicate solutions                                             *)
(***************************************************************************)
\* C18: no two of the solutions returned so far hold the same set of rows;
\* and when the stream has ended, for two input rows with the same columns,
\* every emitted solution with one of them has a twin with the other in its
\* place.
C18_NoDuplicates ==
    /\ \A j, k \in 1..Len(collected) :
           j # k => RowsOf(collected[j]) # RowsOf(collected[k])
    /\ Exhausted =>
           \A S \in Emitted : \A i \in S : \A j \in RowIdx \ S :
               RowCols(i) = RowCols(j) => ((S \ {i}) \cup {j}) \in Emitted

\* the stream has ended after emitting two solutions, one for each of two
\* input rows that list the same two columns
C18_Witness ==
    /\ Exhausted /\ Len(collected) = 2
    /\ Len(collected[1]) = 1 /\ Len(collected[2]) = 1
    /\ collected[1][1] # collected[2][1]
    /\ RowCols(collected[1][1]) = RowCols(collected[2][1])
    /\ Cardinality(RowCols(collected[1][1])) = 2

(***************************************************************************)
(* C19  Partial-solution invariant                                         *)
(***************************************************************************)
\* the columns of the rows listed in partial_solution
ChosenCols == UNION {RowCols(partial_solution[k]) : k \in 1..Len(partial_solution)}

\* C19: the rows listed in partial_solution are pairwise distinct and
\* pairwise column-disjoint, and the occurring columns whose header is not in
\* the header row are the forced columns that occur together with the
\* columns of the rows of partial_solution.
C19_PartialSolution ==
    /\ \A j, k \in 1..Len(partial_solution) :
           j # k => /\ partial_solution[j] # partial_solution[k]
                    /\ RowCols(partial_solution[j]) \cap RowCols(partial_solution[k]) = {}
    /\ Occurring \ HeaderRowCols = (forced \cap Occurring) \cup ChosenCols

\* after a step, a row of two columns is chosen while two forced columns
\* that occur are covered
C19_Witness ==
    /\ op = "step"
    /\ Len(partial_solution) = 1
    /\ Cardinality(ChosenCols) = 2
    /\ Cardinality(forced \cap Occurring) = 2

(***************************************************************************)
(* C20  Stack-shape invariant                                              *)
(***************************************************************************)
\* C20: step_stack holds one backtracking step per entry of
\* partial_solution, the i-th on a node of row partial_solution[i], and on
\* top of them at most one forward step.
C20_StackShape ==
    /\ Len(step_stack) \in {Len(partial_solution), Len(partial_solution) + 1}
    /\ \A i \in 1..Len(step_stack) :
           IF i <= Len(partial_solution)
           THEN /\ step_stack[i].backtracking
                /\ node(state, step_stack[i].node_id).row = partial_solution[i]
           ELSE ~step_stack[i].backtracking

\* after a step and after a solution, a forward step lies on top of the
\* backtracking step of the one chosen row
C20_Witness ==
    /\ op = "step" /\ collected # <<>>
    /\ Len(partial_solution) = 1
    /\ Len(step_stack) = 2
    /\ ~step_stack[2].backtracking

=============================================================================
